---- MODULE Spec2Model ----
(***************************************************************************)
(* Model of astana_fund/models.py: the Django models Event,                *)
(* MediaPublication, Project, Video, Music, Article and InterestingTag,    *)
(* their save() overrides (slug derivation), the constraints the field     *)
(* declarations put on the tables (unique, choices, auto_now_add,          *)
(* auto_now) and the derived display properties (formatted_date,           *)
(* duration, type, get_absolute_url).                                      *)
(*                                                                         *)
(* Text is a sequence of Unicode code points (the module is ASCII only):   *)
(* <<101, 45, 98>> is "e-b", <<>> is the empty string.                     *)
(***************************************************************************)
EXTENDS Integers, Sequences, FiniteSets, TLC

VARIABLES
    db,       \* table name -> sequence of rows; a row's pk is its index
    clock,    \* timezone.now()
    last,     \* the last operation: its inputs and its outcome
    proj,     \* a Project instance read by Project.duration
    durOut,   \* what the last read of Project.duration gave
    pub,      \* publication_date of a MediaPublication instance
    dateOut   \* what the last read of MediaPublication.formatted_date gave

vars == <<db, clock, last, proj, durOut, pub, dateOut>>

(* ------------------------------ bounds -------------------------------- *)

\* rows in the whole store
MaxRows == 2
\* the last tick of the clock
MaxClock == 2

(* ------------------------------ tables -------------------------------- *)

InterestingTables == {"Video", "Music", "Article"}

SlugTables == {"MediaPublication", "Project", "InterestingTag"} \cup InterestingTables

Tables == {"Event"} \cup SlugTables

\* Event.STATUS_CHOICES
Event_STATUS_CHOICES == {"current", "past"}

\* MediaPublication.PUBLICATION_TYPE_CHOICES
PUBLICATION_TYPE_CHOICES == {"article", "interview", "report", "photo", "video"}

\* Project.STATUS_CHOICES
Project_STATUS_CHOICES == {"current", "completed", "permanent"}

\* The choices= of the table's enumerated field (Event.status,
\* MediaPublication.publication_type, Project.status); the other tables have
\* no such field and their rows carry "-" there.
Choices(t) ==
    CASE t = "Event" -> Event_STATUS_CHOICES
      [] t = "MediaPublication" -> PUBLICATION_TYPE_CHOICES
      [] t = "Project" -> Project_STATUS_CHOICES
      [] OTHER -> {"-"}

(* ------------------------------ slugify ------------------------------- *)

\* unicodedata.normalize("NFKD", c) for one character: the Latin-1 capital
\* E with acute decomposes into E and the combining acute accent; every
\* other character used here is its own decomposition.
NFKD(c) == IF c = 201 THEN <<69, 769>> ELSE <<c>>

RECURSIVE Normalize(_)
Normalize(s) == IF s = <<>> THEN <<>> ELSE NFKD(Head(s)) \o Normalize(Tail(s))

\* .encode("ascii", "ignore").decode("ascii")
AsciiOnly(s) == SelectSeq(s, LAMBDA c : c < 128)

\* str.lower() on ASCII text
Lower(s) == [i \in DOMAIN s |-> IF s[i] \in 65..90 THEN s[i] + 32 ELSE s[i]]

\* \w on ASCII text: letters, digits, underscore
IsWord(c) == c \in (48..57) \cup (65..90) \cup (97..122) \cup {95}

\* \s on ASCII text
IsSpace(c) == c \in (9..13) \cup (28..32)

\* re.sub(r"[^\w\s-]", "", value)
KeepWordSpaceHyphen(s) == SelectSeq(s, LAMBDA c : IsWord(c) \/ IsSpace(c) \/ c = 45)

\* re.sub(r"[-\s]+", "-", value): every run of hyphens and whitespace
\* becomes one hyphen
RECURSIVE Hyphenate(_)
Hyphenate(s) ==
    IF s = <<>> THEN <<>>
    ELSE IF IsSpace(Head(s)) \/ Head(s) = 45
         THEN IF Tail(s) # <<>> /\ (IsSpace(Head(Tail(s))) \/ Head(Tail(s)) = 45)
              THEN Hyphenate(Tail(s))
              ELSE <<45>> \o Hyphenate(Tail(s))
         ELSE <<Head(s)>> \o Hyphenate(Tail(s))

\* str.strip("-_")
RECURSIVE LStrip(_)
LStrip(s) == IF s # <<>> /\ Head(s) \in {45, 95} THEN LStrip(Tail(s)) ELSE s

RECURSIVE RStrip(_)
RStrip(s) ==
    IF s # <<>> /\ s[Len(s)] \in {45, 95} THEN RStrip(SubSeq(s, 1, Len(s) - 1)) ELSE s

\* django.utils.text.slugify(value), allow_unicode=False
slugify(value) ==
    RStrip(LStrip(Hyphenate(KeepWordSpaceHyphen(Lower(AsciiOnly(Normalize(value)))))))

(* --------------------------- save() overrides ------------------------- *)

\* An instance: the modelled fields of a row, and `computed`, which
\* records that save() ran `self.slug = slugify(self.title)`.

\* MediaPublication.save, before super().save()
MediaPublication_save(self) ==
    IF self.slug = <<>>
    THEN [self EXCEPT !.slug = slugify(self.title), !.computed = TRUE]
    ELSE self

\* a save() that always suffixes the derived slug
Project_save_suffixed(self) ==
    IF self.slug = <<>>
    THEN [self EXCEPT !.slug = slugify(self.title) \o <<45, 50>>, !.computed = TRUE]
    ELSE self

\* Project.save, before super().save()
Project_save(self) ==
    IF self.slug = <<>>
    THEN [self EXCEPT !.slug = slugify(self.title), !.computed = TRUE]
    ELSE self

\* InterestingBase.save, before super().save(): Video, Music, Article
InterestingBase_save(self) ==
    IF self.slug = <<>>
    THEN [self EXCEPT !.slug = slugify(self.title), !.computed = TRUE]
    ELSE self

\* InterestingTag.save, before super().save(); `title` holds the tag's name
InterestingTag_save(self) ==
    IF self.slug = <<>>
    THEN [self EXCEPT !.slug = slugify(self.title), !.computed = TRUE]
    ELSE self

\* The instance save() hands to super().save(); Event defines no save().
save(t, self) ==
    CASE t = "MediaPublication" -> MediaPublication_save(self)
      [] t = "Project" -> Project_save(self)
      [] t \in InterestingTables -> InterestingBase_save(self)
      [] t = "InterestingTag" -> InterestingTag_save(self)
      [] OTHER -> self

(* ------------------------- the storage layer -------------------------- *)

\* a table with no unique column
UniqueViolation_none(t, rows, pk, row) == FALSE

\* unique=True on slug (every table but Event) and on InterestingTag.name:
\* the write of `row` as row `pk` (0: a new row) meets another row holding
\* the same value.
UniqueViolation(t, rows, pk, row) ==
    \E k \in DOMAIN rows :
        /\ k # pk
        /\ \/ t \in SlugTables /\ rows[k].slug = row.slug
           \/ t = "InterestingTag" /\ rows[k].title = row.title

\* a created_at that is refreshed like updated_at
auto_now_add_every_save(add, now, old) == now

\* DateTimeField(auto_now_add=True).pre_save: the time of the insert
auto_now_add(add, now, old) == IF add THEN now ELSE old

\* DateTimeField(auto_now=True).pre_save: the time of this save
auto_now(now) == now

\* InterestingTag declares no created_at and no updated_at; its rows carry 0.
HasTimestamps(t) == t # "InterestingTag"

\* models.Model.save(): the insert (pk = 0) or update of one row; created_at
\* reads the clock at t1 and updated_at at t2 >= t1. The result and the
\* table after it.
Model_save(t, rows, pk, self, t1, t2) ==
    LET add == pk = 0
        row == [title |-> self.title, slug |-> self.slug, choice |-> self.choice,
                created_at |-> IF HasTimestamps(t)
                               THEN auto_now_add(add, t1, self.created_at) ELSE 0,
                updated_at |-> IF HasTimestamps(t) THEN auto_now(t2) ELSE 0]
    IN  IF UniqueViolation(t, rows, pk, row)
        THEN [result |-> "IntegrityError", rows |-> rows, pk |-> pk]
        ELSE IF add
             THEN [result |-> "ok", rows |-> Append(rows, row), pk |-> Len(rows) + 1]
             ELSE [result |-> "ok", rows |-> [rows EXCEPT ![pk] = row], pk |-> pk]

\* Model.clean_fields() for the enumerated field: choices= is enforced
\* here and nowhere else.
clean_fields(t, self) == self.choice \in Choices(t)

(* ---------------------------- display helpers ------------------------- *)

\* Video.type
Video_type == "video"

\* a type tag copied from Video
Music_type_copied == "video"

\* Music.type
Music_type == "music"

\* Article.type
Article_type == "article"

type(t) ==
    CASE t = "Video" -> Video_type
      [] t = "Music" -> Music_type
      [] t = "Article" -> Article_type

\* InterestingBase.get_absolute_url: reverse("interesting_detail", kwargs),
\* the address being the keyword arguments the route is resolved with
get_absolute_url(t, row) == [slug |-> row.slug, type |-> type(t)]

(* ------------------------------- state -------------------------------- *)

NoOp ==
    [op |-> "none", t |-> "-", pk |-> 0, title |-> <<>>, edit |-> FALSE,
     slug_in |-> <<>>, slug_out |-> <<>>, computed |-> FALSE, choice |-> "-",
     result |-> "-"]

TotalRows == Len(db["Event"]) + Len(db["MediaPublication"]) + Len(db["Project"])
             + Len(db["Video"]) + Len(db["Music"]) + Len(db["Article"])
             + Len(db["InterestingTag"])

InitStore ==
    /\ db = [t \in Tables |-> <<>>]
    /\ clock = 0
    /\ last = NoOp

\* obj = Model(title=..., slug=..., <choice field>=...); obj.save()
\* The clock advances by d between the two reads of timezone.now().
Create(t, title, slug, choice, d) ==
    /\ TotalRows < MaxRows
    /\ clock + d <= MaxClock
    /\ LET self0 == [title |-> title, slug |-> slug, choice |-> choice,
                     created_at |-> 0, updated_at |-> 0, computed |-> FALSE]
           self == save(t, self0)
           r == Model_save(t, db[t], 0, self, clock, clock + d)
       IN  /\ db' = [db EXCEPT ![t] = r.rows]
           /\ last' = [op |-> "create", t |-> t, pk |-> r.pk, title |-> title,
                       edit |-> TRUE, slug_in |-> slug, slug_out |-> self.slug,
                       computed |-> self.computed, choice |-> choice,
                       result |-> r.result]
    /\ clock' = clock + d
    /\ UNCHANGED <<proj, durOut, pub, dateOut>>

\* obj = Model.objects.get(pk=pk); obj.title = title; obj.<choice> = choice;
\* (edit: obj.slug = slug;) obj.save()
Update(t, pk, title, edit, slug, choice, d) ==
    /\ pk \in DOMAIN db[t]
    /\ clock + d <= MaxClock
    /\ LET old == db[t][pk]
           self0 == [title |-> title, slug |-> IF edit THEN slug ELSE old.slug,
                     choice |-> choice, created_at |-> old.created_at,
                     updated_at |-> old.updated_at, computed |-> FALSE]
           self == save(t, self0)
           r == Model_save(t, db[t], pk, self, clock, clock + d)
       IN  /\ db' = [db EXCEPT ![t] = r.rows]
           /\ last' = [op |-> "update", t |-> t, pk |-> pk, title |-> title,
                       edit |-> edit, slug_in |-> self0.slug, slug_out |-> self.slug,
                       computed |-> self.computed, choice |-> choice,
                       result |-> r.result]
    /\ clock' = clock + d
    /\ UNCHANGED <<proj, durOut, pub, dateOut>>

\* time passes
Tick ==
    /\ clock < MaxClock
    /\ clock' = clock + 1
    /\ last' = [NoOp EXCEPT !.op = "tick"]
    /\ UNCHANGED <<db, proj, durOut, pub, dateOut>>

\* form.is_valid() and then form.save(), as the admin does: full_clean()
\* runs clean_fields() first and save() is reached only when it passes.
\* Of full_clean() only the check of the enumerated field is modelled.
ValidatedCreate(t, title, slug, choice) ==
    IF clean_fields(t, [choice |-> choice])
    THEN Create(t, title, slug, choice, 0)
    ELSE /\ last' = [NoOp EXCEPT !.op = "create", !.t = t, !.title = title,
                                 !.edit = TRUE, !.slug_in = slug, !.choice = choice,
                                 !.result = "ValidationError"]
         /\ UNCHANGED <<db, clock, proj, durOut, pub, dateOut>>

(* ------------------------ Project.duration --------------------------- *)

\* A date is <<year, month, day>>; None is the empty tuple.
None == <<>>

year(d) == d[1]

month(d) == d[2]

day(d) == d[3]

\* str(n) of a non-negative int: its decimal digits
RECURSIVE str(_)
str(n) == IF n < 10 THEN <<48 + n>> ELSE str(n \div 10) \o <<48 + (n % 10)>>

Returned(text) == [raised |-> "", value |-> text]

Raised(exception) == [raised |-> exception, value |-> <<>>]

Unread == [raised |-> "", value |-> <<0>>]

\* Project.duration; `self.start_date.year` with start_date None raises
\* AttributeError.
duration(self) ==
    IF self.status = "permanent"
    THEN IF self.start_date = None
         THEN Raised("AttributeError")
         ELSE Returned(<<1057, 32>> \o str(year(self.start_date))
                       \o <<32, 1075, 1086, 1076, 1072>>)
    ELSE IF self.status = "completed" /\ self.start_date # None /\ self.end_date # None
    THEN Returned(str(year(self.start_date)) \o <<45>> \o str(year(self.end_date)))
    ELSE IF self.start_date # None
    THEN Returned(<<1057, 32>> \o str(year(self.start_date)))
    ELSE Returned(<<>>)

\* start_date and end_date are DateField(null=True, blank=True)
ProjectDates == {None, <<999, 1, 1>>, <<2010, 5, 9>>, <<2015, 1, 31>>,
                 <<2020, 12, 31>>, <<2022, 2, 28>>}

DefaultProject == [status |-> "current", start_date |-> None, end_date |-> None]

\* project.status, project.start_date, project.end_date = ...
SetProject(status, start_date, end_date) ==
    /\ proj' = [status |-> status, start_date |-> start_date, end_date |-> end_date]
    /\ proj' # proj
    /\ durOut' = Unread
    /\ last' = [NoOp EXCEPT !.op = "set_project"]
    /\ UNCHANGED <<db, clock, pub, dateOut>>

\* project.duration
ReadDuration ==
    /\ durOut' = duration(proj)
    /\ last' = [NoOp EXCEPT !.op = "duration"]
    /\ UNCHANGED <<db, clock, proj, pub, dateOut>>

(* ------------------- MediaPublication.formatted_date ------------------ *)

\* the `months` dict of formatted_date
months ==
    <<  <<1103, 1085, 1074, 1072, 1088, 1103>>,
        <<1092, 1077, 1074, 1088, 1072, 1083, 1103>>,
        <<1084, 1072, 1088, 1090, 1072>>,
        <<1072, 1087, 1088, 1077, 1083, 1103>>,
        <<1084, 1072, 1103>>,
        <<1080, 1102, 1085, 1103>>,
        <<1080, 1102, 1083, 1103>>,
        <<1072, 1074, 1075, 1091, 1089, 1090, 1072>>,
        <<1089, 1077, 1085, 1090, 1103, 1073, 1088, 1103>>,
        <<1086, 1082, 1090, 1103, 1073, 1088, 1103>>,
        <<1085, 1086, 1103, 1073, 1088, 1103>>,
        <<1076, 1077, 1082, 1072, 1073, 1088, 1103>>  >>

\* a day formatted as %02d
formatted_date_padded(publication_date) ==
    (IF day(publication_date) < 10 THEN <<48>> ELSE <<>>)
    \o str(day(publication_date)) \o <<32>> \o months[month(publication_date)]
    \o <<32>> \o str(year(publication_date))

\* MediaPublication.formatted_date
formatted_date(publication_date) ==
    str(day(publication_date)) \o <<32>> \o months[month(publication_date)]
    \o <<32>> \o str(year(publication_date))

PublicationDates == {<<y, m, d>> : y \in {999, 2024}, m \in 1..12, d \in {1, 9, 21, 28}}

\* publication.publication_date = d
SetPublicationDate(d) ==
    /\ pub' = d
    /\ pub' # pub
    /\ dateOut' = Unread
    /\ last' = [NoOp EXCEPT !.op = "set_publication_date"]
    /\ UNCHANGED <<db, clock, proj, durOut>>

\* publication.formatted_date
ReadFormattedDate ==
    /\ dateOut' = Returned(formatted_date(pub))
    /\ last' = [NoOp EXCEPT !.op = "formatted_date"]
    /\ UNCHANGED <<db, clock, proj, durOut, pub>>

(* --------------------------- specifications --------------------------- *)

Init ==
    /\ InitStore
    /\ proj = DefaultProject
    /\ durOut = Unread
    /\ pub = <<2024, 11, 21>>
    /\ dateOut = Unread

\* E-acute, two spaces, "b!" and "-e-B_" both slugify to "e-b"; the Cyrillic letter Ya
\* slugifies to the empty string.
Titles == {<<201, 32, 32, 98, 33>>, <<45, 101, 45, 66, 95>>, <<1071>>}

\* "" and "e-b"
SlugInputs == {<<>>, <<101, 45, 98>>}

\* the field's default= (Project.status, MediaPublication.publication_type);
\* Event.status has none and gets a listed value
DefaultChoice(t) ==
    CASE t = "Event" -> "current"
      [] t = "MediaPublication" -> "article"
      [] t = "Project" -> "current"
      [] OTHER -> "-"

Pks == 1..MaxRows

\* Saves of the tables that have a slug, with every title and slug, listed
\* enum values and a stopped clock. An update either leaves the slug alone
\* or assigns one.
CreateSlug ==
    \E t \in SlugTables, title \in Titles, slug \in SlugInputs :
        Create(t, title, slug, DefaultChoice(t), 0)

UpdateSlug ==
    \E t \in SlugTables, pk \in Pks, title \in Titles :
        \/ Update(t, pk, title, FALSE, <<>>, DefaultChoice(t), 0)
        \/ \E slug \in SlugInputs : Update(t, pk, title, TRUE, slug, DefaultChoice(t), 0)

Next == CreateSlug \/ UpdateSlug

Spec == Init /\ [][Next]_vars

\* Saves with every value of the enumerated field, listed or not.
EnumTables == {"Event", "MediaPublication", "Project"}

EnumInputs(t) == Choices(t) \cup {"bogus"}

CreateEnum ==
    \E t \in EnumTables, slug \in SlugInputs \ {<<>>} : \E choice \in EnumInputs(t) :
        Create(t, <<1071>>, IF t = "Event" THEN <<>> ELSE slug, choice, 0)

UpdateEnum ==
    \E t \in EnumTables, pk \in Pks : \E choice \in EnumInputs(t) :
        Update(t, pk, <<1071>>, FALSE, <<>>, choice, 0)

ValidatedCreateEnum ==
    \E t \in EnumTables, slug \in SlugInputs \ {<<>>} : \E choice \in EnumInputs(t) :
        ValidatedCreate(t, <<1071>>, IF t = "Event" THEN <<>> ELSE slug, choice)

NextEnum == CreateEnum \/ UpdateEnum \/ ValidatedCreateEnum

SpecEnum == Init /\ [][NextEnum]_vars

\* Saves under a running clock.
CreateTimed ==
    \E t \in Tables, d \in {0, 1} :
        Create(t, <<1071>>, IF t = "Event" THEN <<>> ELSE <<101, 45, 98>>,
               DefaultChoice(t), d)

UpdateTimed ==
    \E t \in Tables, pk \in Pks, d \in {0, 1} :
        Update(t, pk, <<45, 101, 45, 66, 95>>, FALSE, <<>>, DefaultChoice(t), d)

NextTimed == Tick \/ CreateTimed \/ UpdateTimed

SpecTimed == Init /\ [][NextTimed]_vars

\* Reads of Project.duration over every status and presence of the dates.
SetProjectAny ==
    \E status \in Project_STATUS_CHOICES, s \in ProjectDates, e \in ProjectDates :
        SetProject(status, s, e)

NextDuration == SetProjectAny \/ ReadDuration

SpecDuration == Init /\ [][NextDuration]_vars

\* Reads of MediaPublication.formatted_date over the dates.
SetPublicationDateAny == \E d \in PublicationDates : SetPublicationDate(d)

NextDate == SetPublicationDateAny \/ ReadFormattedDate

SpecDate == Init /\ [][NextDate]_vars

(* ------------------------------- claims ------------------------------- *)

IsSave(l) == l.op \in {"create", "update"}

\* C1: a new record saved with an empty slug and no conflict stores the slug
\* slugify gives for its title, whatever the table and the rest of the
\* store; and a later save of a record whose slug the caller did not touch
\* (only the title and the other fields were assigned) leaves the stored
\* slug as it was.
C1_SlugDerivedThenKept ==
    /\ (last.op = "create" /\ last.t \in SlugTables /\ last.slug_in = <<>>
        /\ last.result = "ok")
       => db[last.t][last.pk].slug = slugify(last.title)
    /\ (last.op = "update" /\ last.t \in SlugTables /\ ~last.edit /\ last.result = "ok")
       => db[last.t][last.pk].slug = last.slug_in

\* C2: save() computes the slug from the title on the first save exactly
\* when no slug was supplied, and on no later save of a record whose slug
\* the caller did not touch.
C2_SlugComputedOnlyOnCreate ==
    /\ (last.op = "create" /\ last.t \in SlugTables)
       => (last.computed <=> last.slug_in = <<>>)
    /\ (last.op = "update" /\ ~last.edit) => ~last.computed

SlugsPairwiseDistinct ==
    \A t \in SlugTables : \A i, j \in DOMAIN db[t] :
        i # j => db[t][i].slug # db[t][j].slug

\* the step is a save whose instance carries, after save()'s derivation, a
\* slug that another row of the table holds
DuplicateSlugSave ==
    /\ IsSave(last')
    /\ last'.t \in SlugTables
    /\ \E k \in DOMAIN db[last'.t] :
           k # last'.pk /\ db[last'.t][k].slug = last'.slug_out

\* C3: in every state the slugs of a table are pairwise distinct, and a
\* save whose slug (supplied or derived) another row of the table holds
\* fails and writes nothing.
C3_SlugsUniquePerTable ==
    /\ SlugsPairwiseDistinct
    /\ [][/\ SlugsPairwiseDistinct'
          /\ DuplicateSlugSave => (last'.result = "IntegrityError" /\ db' = db)]_vars

\* an update of the second Project that supplies the first one's slug is
\* rejected
C3_Witness ==
    /\ last.op = "update" /\ last.t = "Project" /\ last.pk = 2 /\ last.edit
    /\ Len(db["Project"]) = 2
    /\ last.slug_in = db["Project"][1].slug
    /\ last.result = "IntegrityError"

\* C4: the creation of a record with an empty slug whose derived slug a row
\* of the table already holds ends in IntegrityError, leaves the store as it
\* was, and the only slug save() produced is slugify(title).
C4_CollisionRejectedNoRetry ==
    [][(/\ last'.op = "create"
        /\ last'.t \in SlugTables
        /\ last'.slug_in = <<>>
        /\ \E k \in DOMAIN db[last'.t] : db[last'.t][k].slug = slugify(last'.title))
       => (/\ last'.result = "IntegrityError"
           /\ db' = db
           /\ last'.slug_out = slugify(last'.title))]_vars

\* a second Project, with another title that derives the same slug, is
\* rejected
C4_Witness ==
    /\ last.op = "create" /\ last.t = "Project" /\ last.slug_in = <<>>
    /\ last.result = "IntegrityError"
    /\ Len(db["Project"]) = 1
    /\ db["Project"][1].title # last.title
    /\ db["Project"][1].slug = slugify(last.title)

\* what Project.duration is to return, case by case, where the label's
\* start year exists
DurationLabel(p) ==
    IF p.status = "permanent"
    THEN <<1057, 32>> \o str(p.start_date[1]) \o <<32, 1075, 1086, 1076, 1072>>
    ELSE IF p.status = "completed" /\ p.start_date # None /\ p.end_date # None
    THEN str(p.start_date[1]) \o <<45>> \o str(p.end_date[1])
    ELSE IF p.start_date # None
    THEN <<1057, 32>> \o str(p.start_date[1])
    ELSE <<>>

\* C5: Project.duration returns "S <start-year> goda" (in Cyrillic) for a
\* permanent project, "<start-year>-<end-year>" for a completed one with
\* both dates, "S <start-year>" for any other with a start date, and the
\* empty string for the rest; for a permanent project it returns a label of
\* the first form in every case.
C5_DurationLabels ==
    durOut # Unread =>
        /\ durOut.raised = ""
        /\ (proj.status = "permanent" /\ proj.start_date = None)
           => /\ Len(durOut.value) > 7
              /\ SubSeq(durOut.value, 1, 2) = <<1057, 32>>
              /\ SubSeq(durOut.value, Len(durOut.value) - 4, Len(durOut.value))
                 = <<32, 1075, 1086, 1076, 1072>>
        /\ ~(proj.status = "permanent" /\ proj.start_date = None)
           => durOut.value = DurationLabel(proj)

\* Project.duration gives the label of its case wherever the start year the
\* label needs exists (every case but permanent without a start date).
DurationLabelsWhereStartYearExists ==
    (durOut # Unread /\ ~(proj.status = "permanent" /\ proj.start_date = None))
    => durOut = Returned(DurationLabel(proj))

\* C6: every persisted Event.status, Project.status and
\* MediaPublication.publication_type is a listed value, and a save that
\* carries another value is rejected.
C6_EnumsClosed ==
    /\ \A k \in DOMAIN db["Event"] : db["Event"][k].choice \in {"current", "past"}
    /\ \A k \in DOMAIN db["Project"] :
           db["Project"][k].choice \in {"current", "completed", "permanent"}
    /\ \A k \in DOMAIN db["MediaPublication"] :
           db["MediaPublication"][k].choice
               \in {"article", "interview", "report", "photo", "video"}
    /\ (IsSave(last) /\ last.t \in EnumTables /\ last.choice \notin Choices(last.t))
       => last.result # "ok"

InterestingRecords == {<<t, k>> : t \in InterestingTables, k \in Pks}

Stored(r) == r[2] \in DOMAIN db[r[1]]

TypeTag(t) == IF t = "Video" THEN "video" ELSE IF t = "Music" THEN "music" ELSE "article"

\* C7: the detail address of a Video, Music or Article is its table's type
\* tag with its own slug, and no two distinct records of the three tables
\* have the same address.
C7_DetailAddressesDistinct ==
    /\ \A r \in InterestingRecords :
           Stored(r) => get_absolute_url(r[1], db[r[1]][r[2]])
                        = [type |-> TypeTag(r[1]), slug |-> db[r[1]][r[2]].slug]
    /\ \A r1, r2 \in InterestingRecords :
           (Stored(r1) /\ Stored(r2) /\ r1 # r2)
           => get_absolute_url(r1[1], db[r1[1]][r1[2]])
              # get_absolute_url(r2[1], db[r2[1]][r2[2]])

\* a Video and a Music hold the same slug
C7_Witness ==
    /\ Len(db["Video"]) = 1 /\ Len(db["Music"]) = 1
    /\ db["Video"][1].slug = db["Music"][1].slug
    /\ db["Video"][1].slug # <<>>

TimedTables == {t \in Tables : HasTimestamps(t)}

\* C8: a save never changes the created_at of a stored row; a save that
\* succeeds leaves the row's updated_at at the time the save ended, and a
\* first save leaves created_at at a time within the save; created_at <=
\* updated_at in every row.
C8_Timestamps ==
    [][/\ \A t \in TimedTables : \A k \in DOMAIN db[t] :
              db'[t][k].created_at = db[t][k].created_at
       /\ (IsSave(last') /\ last'.result = "ok" /\ last'.t \in TimedTables)
          => /\ db'[last'.t][last'.pk].updated_at = clock'
             /\ last'.op = "create"
                => db'[last'.t][last'.pk].created_at \in clock..clock'
       /\ \A t \in TimedTables : \A k \in DOMAIN db'[t] :
              db'[t][k].created_at <= db'[t][k].updated_at]_vars

\* a row updated at a later time than it was created
C8_Witness ==
    /\ last.op = "update" /\ last.result = "ok" /\ last.t = "Event"
    /\ db["Event"][last.pk].created_at < db["Event"][last.pk].updated_at
    /\ db["Event"][last.pk].updated_at = clock

C10_DurationNeverRaises == durOut.raised = ""

====
